---- MODULE Spec2Model ----
(***************************************************************************)
(* Model of the ROM inserter (inserter.py): the Inserter object, its       *)
(* insert operation and the pointer replacement pass replace_pointers.     *)
(*                                                                         *)
(* The ROM is a sequence of bytes; the byte at file offset o is ROM[o+1].  *)
(* Python integers are unbounded and the pointer values of the program     *)
(* start at 0x80000000; to keep every number of the model within 31 bits a *)
(* Python integer n that may be a pointer value is held as the pair        *)
(* <<n % 65536, n \div 65536>>. File offsets and byte values are plain     *)
(* integers, but for the cursor of SpecFar, which can lie at 2^31 and is   *)
(* held as a pair too.                                                     *)
(***************************************************************************)
EXTENDS Integers, Sequences, FiniteSets, TLC

VARIABLES
    ROM,                    \* self.ROM: the contents of the file
    tell,                   \* self.ROM.tell(): the position of the file
    Insert_offset,          \* self.Insert_offset
    self_VIRTUAL_OFFSET,    \* self.VIRTUAL_OFFSET
    pointers_find_replace,  \* self.pointers_find_replace
    byte_sequence,          \* replace_pointers: the local byte_sequence
    pc,                     \* "idle", or where replace_pointers stands, or
                            \* where a use of the codec on its own stands
    insert_at,              \* history: the insert_at given to __init__
    calls,                  \* history: the insert calls made, with results
    rom0,                   \* history: ROM when the running pass started
    npasses,                \* history: the number of passes started
    codec                   \* history: a call of decimal_to_little_endian, its
                            \* result, and little_endian_to_decimal of that

vars == <<ROM, tell, Insert_offset, self_VIRTUAL_OFFSET, pointers_find_replace,
          byte_sequence, pc, insert_at, calls, rom0, npasses, codec>>

----------------------------------------------------------------------------
(* Bounds of the model *)

MaxLen == 8
MaxPayloadLen == 1
MaxInserts == 2
MaxPasses == 1

(* The inputs the model draws from *)

ByteValues == {0, 128}
PayloadBytes == {170}
StartOffsets == {2, 8}

----------------------------------------------------------------------------
(* Python integers as pairs <<low 16 bits, the rest>> *)

Num(n) == <<n % 65536, n \div 65536>>

Plus(a, b) ==
    LET s == a[1] + b[1]
    IN  <<s % 65536, a[2] + b[2] + (s \div 65536)>>

RECURSIVE Pow(_, _)
Pow(b, e) == IF e = 0 THEN 1 ELSE b * Pow(b, e - 1)

\* value * 256**power, for a byte value
Times256(value, power) ==
    IF power < 2
    THEN Num(value * Pow(256, power))
    ELSE <<0, value * Pow(256, power - 2)>>

----------------------------------------------------------------------------
(* Module constants *)

VIRTUAL_OFFSET == <<0, 32768>>
POINTER_SIZE == 4

\* what a call that returns nothing returns
None == <<>>

\* the old addresses given to insert: 0x80 and 0x800000
OldAddresses == {Num(128), <<0, 128>>}
\* the virtual_offset given to __init__
VirtualOffsets == {VIRTUAL_OFFSET, Num(0)}

----------------------------------------------------------------------------
(* The file object *)

Zeros(n) == <<>> \o [i \in 1..n |-> 0]

\* FileWrite without the tail of the file after the bytes written
FileWrite_truncating(rom, at, bytes) ==
    IF Len(bytes) = 0
    THEN rom
    ELSE LET before == IF at <= Len(rom)
                       THEN SubSeq(rom, 1, at)
                       ELSE rom \o Zeros(at - Len(rom))
         IN  before \o bytes

\* FileWrite without the seek: the bytes go to the end of the file
FileWrite_noseek(rom, at, bytes) == rom \o bytes

\* FileWrite on a file emptied first: zero bytes up to the position
FileWrite_zerofill(rom, at, bytes) ==
    IF Len(bytes) = 0 THEN rom ELSE Zeros(at) \o bytes

\* seek(at) followed by write(bytes): a write past the end of the file fills
\* the gap with zero bytes, a write of no bytes leaves the file as it is
FileWrite(rom, at, bytes) ==
    IF Len(bytes) = 0
    THEN rom
    ELSE LET before == IF at <= Len(rom)
                       THEN SubSeq(rom, 1, at)
                       ELSE rom \o Zeros(at - Len(rom))
             after == IF at + Len(bytes) < Len(rom)
                      THEN SubSeq(rom, at + Len(bytes) + 1, Len(rom))
                      ELSE <<>>
         IN  before \o bytes \o after

\* the n bytes of the file from offset o on
SubROM(rom, o, n) == SubSeq(rom, o + 1, o + n)

----------------------------------------------------------------------------
(* The codec *)

RECURSIVE str(_)
str(value) ==
    IF value < 10 THEN <<value>> ELSE Append(str(value \div 10), value % 10)

RECURSIVE int(_)
int(digits) ==
    IF Len(digits) = 0 THEN 0
    ELSE 10 * int(SubSeq(digits, 1, Len(digits) - 1)) + digits[Len(digits)]

\* int(str(value), 0) for every byte value, computed once
IntOfStr == [value \in 0..255 |-> int(str(value))]

RECURSIVE SumFrom(_, _)
SumFrom(bytelist, power) ==
    IF power >= Len(bytelist) THEN Num(0)
    ELSE Plus(Times256(IntOfStr[bytelist[power + 1]], power),
              SumFrom(bytelist, power + 1))

\* little_endian_to_decimal reading the most significant byte first
little_endian_to_decimal_big(bytelist) ==
    SumFrom([i \in 1..Len(bytelist) |-> bytelist[Len(bytelist) + 1 - i]], 0)

little_endian_to_decimal(bytelist) == SumFrom(bytelist, 0)

\* the quotient and the remainder of a Python integer by 16
Div16(n) == <<(n[1] \div 16) + (n[2] % 16) * 4096, n[2] \div 16>>

Mod16(n) == n[1] % 16

\* decimal_to_little_endian that drops the high half of every byte
RECURSIVE decimal_to_little_endian_low(_)
decimal_to_little_endian_low(n) ==
    IF ~(n[1] > 0 \/ n[2] > 0) THEN <<>>
    ELSE <<Mod16(n)>> \o decimal_to_little_endian_low(Div16(Div16(n)))

RECURSIVE decimal_to_little_endian(_)
decimal_to_little_endian(n) ==
    IF ~(n[1] > 0 \/ n[2] > 0) THEN <<>>
    ELSE LET low == Mod16(n)
             n1 == Div16(n)
             byte == low + Mod16(n1) * 16
             n2 == Div16(n1)
         IN  <<byte>> \o decimal_to_little_endian(n2)

\* Fits that lets every value through: to_bytes keeps the low bytes
Fits_any(n, length) == TRUE

\* whether int.to_bytes(length, "little") takes n: it raises OverflowError if not
Fits(n, length) == n[2] < Pow(256, length - 2)

ByteOf(n, power) ==
    IF power < 2
    THEN (n[1] \div Pow(256, power)) % 256
    ELSE (n[2] \div Pow(256, power - 2)) % 256

\* to_bytes with the byte order "big"
to_bytes_big(n, length) == <<>> \o [i \in 1..length |-> ByteOf(n, length - i)]

\* to_bytes with one byte more than asked for
to_bytes_wide(n, length) == <<>> \o [i \in 1..(length + 1) |-> ByteOf(n, i - 1)]

to_bytes(n, length) == <<>> \o [i \in 1..length |-> ByteOf(n, i - 1)]

----------------------------------------------------------------------------
(* insert *)

\* NewAddress without the virtual offset
NewAddress_physical(offset) == Num(offset)

NewAddress(offset) == Plus(Num(offset), VIRTUAL_OFFSET)

OldPointer(old_address) == Plus(old_address, VIRTUAL_OFFSET)

\* Pad to a multiple of 2
RECURSIVE Pad_even(_, _)
Pad_even(rom, at) ==
    IF at % 2 # 0
    THEN Pad_even(FileWrite(rom, at, <<0>>), at + 1)
    ELSE <<rom, at>>

\* Pad that writes nothing
Pad_none(rom, at) == <<rom, at>>

RECURSIVE Pad(_, _)
Pad(rom, at) ==
    IF at % 4 # 0
    THEN Pad(FileWrite(rom, at, <<0>>), at + 1)
    ELSE <<rom, at>>

Payloads == UNION {[1..n -> PayloadBytes] : n \in 0..MaxPayloadLen}

Insert(payload, old_address) ==
    /\ pc \in {"idle", "done"}
    /\ Len(calls) < MaxInserts
    /\ LET written == FileWrite(ROM, Insert_offset, payload)
           padded == Pad(written, Insert_offset + Len(payload))
       IN  /\ ROM' = padded[1]
           /\ tell' = padded[2]
           /\ Insert_offset' = padded[2]
    /\ pointers_find_replace' =
           Append(pointers_find_replace,
                  <<OldPointer(old_address), NewAddress(Insert_offset)>>)
    /\ calls' = Append(calls, [payload |-> payload, old_address |-> old_address,
                               at |-> Insert_offset, result |-> None])
    /\ pc' = "idle"
    /\ UNCHANGED <<self_VIRTUAL_OFFSET, byte_sequence, insert_at, rom0, npasses,
                   codec>>

----------------------------------------------------------------------------
(* replace_pointers *)

\* the index of the first pair whose search value is the given value, 0 if none
RECURSIVE FirstFrom(_, _, _)
FirstFrom(pairs, value, k) ==
    IF k > Len(pairs) THEN 0
    ELSE IF pairs[k][1] = value THEN k
    ELSE FirstFrom(pairs, value, k + 1)

\* FirstMatch without the break: the last pair that matches
RECURSIVE LastFrom(_, _, _)
LastFrom(pairs, value, k) ==
    IF k = 0 THEN 0
    ELSE IF pairs[k][1] = value THEN k
    ELSE LastFrom(pairs, value, k - 1)

FirstMatch_last(pairs, value) == LastFrom(pairs, value, Len(pairs))

\* FirstMatch that goes on down the list with the new value it found
FirstMatch_chained(pairs, value) ==
    LET k1 == FirstFrom(pairs, value, 1)
        k2 == IF k1 = 0 THEN 0 ELSE FirstFrom(pairs, pairs[k1][2], k1 + 1)
    IN  IF k2 = 0 THEN k1 ELSE k2

FirstMatch(pairs, value) == FirstFrom(pairs, value, 1)

\* ShiftWindow with pop() for pop(0)
ShiftWindow_popLast(seq, c) == Append(SubSeq(seq, 1, Len(seq) - 1), c)

ShiftWindow(seq, c) == Append(Tail(seq), c)

\* WindowStart one byte short
WindowStart_short(at) == at - POINTER_SIZE + 1

\* WindowStart one byte early
WindowStart_long(at) == at - POINTER_SIZE - 1

\* seek(-POINTER_SIZE, io.SEEK_CUR): where the window just read starts
WindowStart(at) == at - POINTER_SIZE

StartReplace ==
    /\ pc \in {"idle", "done"}
    /\ npasses < MaxPasses
    /\ npasses' = npasses + 1
    /\ rom0' = ROM
    /\ IF Len(ROM) < POINTER_SIZE
       THEN /\ pc' = "error"
            /\ tell' = Len(ROM)
            /\ byte_sequence' = <<>>
       ELSE /\ pc' = "scan"
            /\ tell' = POINTER_SIZE
            /\ byte_sequence' = SubROM(ROM, 0, POINTER_SIZE)
    /\ UNCHANGED <<ROM, Insert_offset, self_VIRTUAL_OFFSET, pointers_find_replace,
                   insert_at, calls, codec>>

\* one turn of the loop of replace_pointers; the values the turn computes are
\* bound once each
Scan ==
    /\ pc = "scan"
    /\ \E byte_sequence_decimal \in {little_endian_to_decimal(byte_sequence)} :
       \E k \in {FirstMatch(pointers_find_replace, byte_sequence_decimal)} :
           IF k # 0 /\ ~Fits(pointers_find_replace[k][2], POINTER_SIZE)
           THEN /\ pc' = "error"
                /\ tell' = WindowStart(tell)
                /\ UNCHANGED <<ROM, byte_sequence>>
           ELSE \E rom1 \in {IF k = 0 THEN ROM
                             ELSE FileWrite(ROM, WindowStart(tell),
                                      to_bytes(pointers_find_replace[k][2],
                                               POINTER_SIZE))},
                   tell1 \in {IF k = 0 THEN tell
                              ELSE WindowStart(tell) + POINTER_SIZE} :
                    /\ ROM' = rom1
                    /\ IF tell1 >= Len(rom1)
                       THEN /\ pc' = "done"
                            /\ tell' = tell1
                            /\ UNCHANGED byte_sequence
                       ELSE /\ pc' = "scan"
                            /\ tell' = tell1 + 1
                            /\ byte_sequence' =
                                   ShiftWindow(byte_sequence, rom1[tell1 + 1])
    /\ UNCHANGED <<Insert_offset, self_VIRTUAL_OFFSET, pointers_find_replace,
                   insert_at, calls, rom0, npasses, codec>>

----------------------------------------------------------------------------
(* The program *)

Images == UNION {[1..n -> ByteValues] : n \in 0..MaxLen}

Init ==
    /\ ROM \in Images
    /\ tell = 0
    /\ insert_at \in StartOffsets
    /\ Insert_offset = insert_at
    /\ self_VIRTUAL_OFFSET \in VirtualOffsets
    /\ pointers_find_replace = <<>>
    /\ byte_sequence = <<>>
    /\ pc = "idle"
    /\ calls = <<>>
    /\ rom0 = <<>>
    /\ npasses = 0
    /\ codec = <<>>

Next ==
    \/ \E payload \in Payloads, old_address \in OldAddresses :
           Insert(payload, old_address)
    \/ StartReplace
    \/ Scan

Spec == Init /\ [][Next]_vars

\* the loop of replace_pointers runs on once entered: nothing in it waits
SpecFair == Spec /\ WF_vars(Scan)

----------------------------------------------------------------------------
(* The program given an old address that is a new address too *)

\* the old addresses given to insert: 0x80 and 0x8, the second one being the
\* offset of the first payload when insert_at is 8
ChainAddresses == {Num(128), Num(8)}

NextChain ==
    \/ \E payload \in Payloads, old_address \in ChainAddresses :
           Insert(payload, old_address)
    \/ StartReplace
    \/ Scan

SpecChain == Init /\ [][NextChain]_vars

----------------------------------------------------------------------------
(* The program with the cursor far from the image, and the codec on its own *)
(*                                                                          *)
(* A cursor of 2^31 or more makes new addresses of more than 4 bytes. No    *)
(* image held as a sequence reaches that far, so SpecFar inserts empty      *)
(* payloads only, at cursors that are multiples of 4: such an insert writes *)
(* nothing. In SpecFar the cursor, and the position of the file after an    *)
(* insert, are held as pairs like the pointer values.                       *)

\* the insert_at given to __init__: 8 and 0x80000000
FarOffsets == {Num(8), <<0, 32768>>}

\* insert of a file of no bytes with the cursor at a multiple of 4
InsertEmpty(old_address) ==
    /\ pc \in {"idle", "done"}
    /\ Len(calls) < MaxInserts
    /\ Insert_offset[1] % 4 = 0
    /\ ROM' = ROM
    /\ tell' = Insert_offset
    /\ pointers_find_replace' =
           Append(pointers_find_replace,
                  <<OldPointer(old_address), Plus(Insert_offset, VIRTUAL_OFFSET)>>)
    /\ Insert_offset' = Insert_offset
    /\ calls' = Append(calls, [payload |-> <<>>, old_address |-> old_address,
                               at |-> Insert_offset, result |-> None])
    /\ pc' = "idle"
    /\ UNCHANGED <<self_VIRTUAL_OFFSET, byte_sequence, insert_at, rom0, npasses,
                   codec>>

\* the numbers given to decimal_to_little_endian, up to 5 bytes wide
CodecInputs ==
    {<<low, high>> : low \in {0, 16, 255, 4660, 65535},
                     high \in {0, 1, 32768, 65535, 65536, 1193046}}

\* a call of decimal_to_little_endian
Encode(n) ==
    /\ pc = "idle"
    /\ calls = <<>>
    /\ npasses = 0
    /\ codec' = <<n, decimal_to_little_endian(n)>>
    /\ pc' = "encoded"
    /\ UNCHANGED <<ROM, tell, Insert_offset, self_VIRTUAL_OFFSET,
                   pointers_find_replace, byte_sequence, insert_at, calls,
                   rom0, npasses>>

\* a call of little_endian_to_decimal on the result of the call before
Decode ==
    /\ pc = "encoded"
    /\ codec' = Append(codec, little_endian_to_decimal(codec[2]))
    /\ pc' = "decoded"
    /\ UNCHANGED <<ROM, tell, Insert_offset, self_VIRTUAL_OFFSET,
                   pointers_find_replace, byte_sequence, insert_at, calls,
                   rom0, npasses>>

InitFar ==
    /\ ROM \in Images
    /\ tell = 0
    /\ insert_at \in FarOffsets
    /\ Insert_offset = insert_at
    /\ self_VIRTUAL_OFFSET \in VirtualOffsets
    /\ pointers_find_replace = <<>>
    /\ byte_sequence = <<>>
    /\ pc = "idle"
    /\ calls = <<>>
    /\ rom0 = <<>>
    /\ npasses = 0
    /\ codec = <<>>

NextFar ==
    \/ \E old_address \in OldAddresses : InsertEmpty(old_address)
    \/ StartReplace
    \/ Scan
    \/ \E n \in CodecInputs : Encode(n)
    \/ Decode

SpecFar == InitFar /\ [][NextFar]_vars

----------------------------------------------------------------------------
(* Vocabulary of the properties, stated apart from the operators above *)

\* the value of a window of 4 bytes read as a little-endian number
LE(w) == <<w[1] + 256 * w[2], w[3] + 256 * w[4]>>

\* the little-endian bytes of a value below 2^32
Bytes(n) == <<n[1] % 256, n[1] \div 256, n[2] % 256, n[2] \div 256>>

\* the offsets at which a complete window of rom starts
Offsets(rom) == 0..(Len(rom) - 4)

WindowAt(rom, o) == SubSeq(rom, o + 1, o + 4)

IsOld(v) == \E k \in 1..Len(pointers_find_replace) : pointers_find_replace[k][1] = v

\* the new value of the earliest pair whose old value is v
FirstNew(v) ==
    LET k == CHOOSE i \in 1..Len(pointers_find_replace) :
                 /\ pointers_find_replace[i][1] = v
                 /\ \A j \in 1..(i - 1) : pointers_find_replace[j][1] # v
    IN  pointers_find_replace[k][2]

\* the window of rom at offset o exists and holds an old value
HeldOld(rom, o) == o \in Offsets(rom) /\ IsOld(LE(WindowAt(rom, o)))

\* the offset of the window in byte_sequence while the pass scans
Window == tell - 4

InPass == pc \in {"scan", "done", "error"}

\* every byte that differs from rom0 lies in a window that held an old value
OnlyOldWindowsAltered ==
    /\ Len(ROM) = Len(rom0)
    /\ \A i \in 0..(Len(rom0) - 1) :
           ROM[i + 1] # rom0[i + 1] => \E o \in (i - 3)..i : HeldOld(rom0, o)

RoundUp4(n) == ((n + 3) \div 4) * 4

\* the cursor before the k-th insert: the start offset, then the end of the
\* previous payload rounded up to a multiple of 4
RECURSIVE CursorBefore(_)
CursorBefore(k) ==
    IF k = 1 THEN insert_at
    ELSE RoundUp4(CursorBefore(k - 1) + Len(calls[k - 1].payload))

\* the start offset plus the padded lengths of the payloads before the k-th
RECURSIVE PaddedSum(_)
PaddedSum(k) ==
    IF k = 1 THEN insert_at
    ELSE PaddedSum(k - 1) + RoundUp4(Len(calls[k - 1].payload))

Virtual(offset) == Plus(Num(offset), VIRTUAL_OFFSET)

Aligned(n) == n[1] % 4 = 0

Less(a, b) == a[2] < b[2] \/ (a[2] = b[2] /\ a[1] < b[1])

NewAddresses == [k \in 1..Len(pointers_find_replace) |-> pointers_find_replace[k][2]]

----------------------------------------------------------------------------
(* C1 *)

\* C1, as claimed: whenever the window at offset o matches an old value and is
\* rewritten, the next window compared against the mapping starts at o+4.
C1_AdvanceByFour ==
    [][(pc = "scan" /\ IsOld(LE(byte_sequence)) /\ pc' = "scan")
           => Window' = Window + 4]_vars

\* C1, amended: whenever the window at offset o matches an old value and is
\* rewritten, the next window compared starts at o+1 and is compared with the
\* bytes it held before the pass: the scan advances by one byte on a match as
\* on a mismatch, so the windows at o+1, o+2 and o+3 are compared too.
C1_AdvanceByOne ==
    [][(pc = "scan" /\ IsOld(LE(byte_sequence)) /\ pc' = "scan")
           => /\ Window' = Window + 1
              /\ Window' \in Offsets(rom0)
              /\ byte_sequence' = WindowAt(rom0, Window')
              /\ WindowAt(ROM', Window) = Bytes(FirstNew(LE(byte_sequence)))]_vars

\* a window matched and was rewritten and the window one byte on is compared
C1_Witness ==
    /\ pc = "scan"
    /\ HeldOld(rom0, Window - 1)
    /\ WindowAt(ROM, Window - 1) = Bytes(FirstNew(LE(WindowAt(rom0, Window - 1))))
    /\ WindowAt(ROM, Window - 1) # WindowAt(rom0, Window - 1)

----------------------------------------------------------------------------
(* C2 *)

\* C2, as claimed: after the pass every window at an offset divisible by 4
\* that held an old value before the pass holds the corresponding new value,
\* and nothing outside the windows that held an old value is altered.
C2_Completeness ==
    pc = "done" =>
        /\ \A o \in Offsets(rom0) :
               (o % 4 = 0 /\ HeldOld(rom0, o))
                   => LE(WindowAt(ROM, o)) = FirstNew(LE(WindowAt(rom0, o)))
        /\ OnlyOldWindowsAltered

\* C2, amended: after a pass that completes every window at an offset o divisible by 4 that
\* held an old value before the pass, and such that none of the windows at
\* o+1, o+2, o+3 held an old value before the pass, holds the new value of the
\* first pair with that old value; no byte outside the windows that held an
\* old value is altered.
C2_CompletenessApart ==
    pc = "done" =>
        /\ \A o \in Offsets(rom0) :
               (/\ o % 4 = 0
                /\ HeldOld(rom0, o)
                /\ \A d \in 1..3 : ~HeldOld(rom0, o + d))
                   => (/\ o + 4 <= Len(ROM)
                       /\ LE(WindowAt(ROM, o)) = FirstNew(LE(WindowAt(rom0, o))))
        /\ OnlyOldWindowsAltered

\* a pass has replaced an old value at an offset divisible by 4
C2_Witness ==
    /\ pc = "done"
    /\ \E o \in Offsets(rom0) :
           /\ o % 4 = 0
           /\ HeldOld(rom0, o)
           /\ \A d \in 1..3 : ~HeldOld(rom0, o + d)
           /\ WindowAt(ROM, o) # WindowAt(rom0, o)
           /\ LE(WindowAt(ROM, o)) = FirstNew(LE(WindowAt(rom0, o)))

----------------------------------------------------------------------------
(* C3 *)

\* C3: an old value held before the pass by a window at an offset that is not
\* a multiple of 4, overlapping no other window that held an old value, is
\* replaced: after the pass the window holds the mapped new value.
C3_UnalignedDetection ==
    pc = "done" =>
        \A o \in Offsets(rom0) :
            (/\ o % 4 # 0
             /\ HeldOld(rom0, o)
             /\ \A d \in 1..3 : ~HeldOld(rom0, o + d) /\ ~HeldOld(rom0, o - d))
                => (/\ o + 4 <= Len(ROM)
                    /\ LE(WindowAt(ROM, o)) = FirstNew(LE(WindowAt(rom0, o))))

\* a pass has replaced an old value at an offset that is not a multiple of 4
C3_Witness ==
    /\ pc = "done"
    /\ \E o \in Offsets(rom0) :
           /\ o % 4 # 0
           /\ HeldOld(rom0, o)
           /\ \A d \in 1..3 : ~HeldOld(rom0, o + d) /\ ~HeldOld(rom0, o - d)
           /\ WindowAt(ROM, o) # WindowAt(rom0, o)
           /\ LE(WindowAt(ROM, o)) = FirstNew(LE(WindowAt(rom0, o)))

----------------------------------------------------------------------------
(* C4 *)

\* the 8 bytes at o are the new pointers of the old values held at o and o+4
BothReplaced(o) ==
    /\ o + 8 <= Len(ROM)
    /\ SubSeq(ROM, o + 1, o + 8) =
           Bytes(FirstNew(LE(WindowAt(rom0, o))))
               \o Bytes(FirstNew(LE(WindowAt(rom0, o + 4))))

\* C4, as claimed: when the windows at o and o+4 both held old values before
\* the pass, after the pass the 8 bytes at o are exactly the two new pointers.
C4_BackToBack ==
    pc = "done" =>
        \A o \in Offsets(rom0) :
            (HeldOld(rom0, o) /\ HeldOld(rom0, o + 4)) => BothReplaced(o)

\* C4, amended: when the windows at o and o+4 both held old values before the
\* pass and no window starting at o+1, o+2, o+3, o+5, o+6 or o+7 held one,
\* after a pass that completes the 8 bytes at o are exactly the two new pointers.
C4_BackToBackApart ==
    pc = "done" =>
        \A o \in Offsets(rom0) :
            (/\ HeldOld(rom0, o)
             /\ HeldOld(rom0, o + 4)
             /\ \A d \in {1, 2, 3, 5, 6, 7} : ~HeldOld(rom0, o + d))
                => BothReplaced(o)

\* a pass has replaced two different old values stored back to back
C4_Witness ==
    /\ pc = "done"
    /\ \E o \in Offsets(rom0) :
           /\ HeldOld(rom0, o)
           /\ HeldOld(rom0, o + 4)
           /\ \A d \in {1, 2, 3, 5, 6, 7} : ~HeldOld(rom0, o + d)
           /\ WindowAt(rom0, o) # WindowAt(rom0, o + 4)
           /\ BothReplaced(o)
           /\ WindowAt(ROM, o) # WindowAt(ROM, o + 4)

----------------------------------------------------------------------------
(* C5 *)

\* C5: the bytes written over a window are those of the new value of the
\* first pair, in mapping order, whose old value the window held before the
\* pass; a window that held no old value is not written.
C5_FirstPairWins ==
    [][pc = "scan"
           => IF IsOld(LE(byte_sequence))
              THEN /\ Window + 4 <= Len(ROM')
                   /\ WindowAt(ROM', Window) = Bytes(FirstNew(LE(byte_sequence)))
              ELSE ROM' = ROM]_vars

\* two pairs share an old value, their new values differ, and a window that
\* held the old value now holds the new value of the earlier pair
C5_Witness ==
    /\ pc = "done"
    /\ \E j, k \in 1..Len(pointers_find_replace) :
           /\ j < k
           /\ pointers_find_replace[j][1] = pointers_find_replace[k][1]
           /\ pointers_find_replace[j][2] # pointers_find_replace[k][2]
           /\ \A i \in 1..(j - 1) :
                  pointers_find_replace[i][1] # pointers_find_replace[j][1]
           /\ \E o \in Offsets(rom0) :
                  /\ LE(WindowAt(rom0, o)) = pointers_find_replace[j][1]
                  /\ WindowAt(ROM, o) = Bytes(pointers_find_replace[j][2])

----------------------------------------------------------------------------
(* C6 *)

\* C6: during and after a pass, a byte differs from its value before the pass
\* only if it lies in a window that held an old value before the pass, and the
\* length of the image is unchanged; so with an empty mapping, or when no
\* window held an old value, the image is unchanged.
C6_OnlyOldWindows == InPass => OnlyOldWindowsAltered

\* a pass has ended that altered the image and left alone a byte that lay in no
\* window that held an old value
C6_Witness ==
    /\ pc = "done"
    /\ ROM # rom0
    /\ \E i \in 0..(Len(rom0) - 1) :
           /\ \A o \in (i - 3)..i : ~HeldOld(rom0, o)
           /\ ROM[i + 1] = rom0[i + 1]

----------------------------------------------------------------------------
(* C7 *)

\* C7, as claimed: the new addresses recorded by successive inserts are the
\* start offset plus VIRTUAL_OFFSET, then the start offset plus the length of
\* the first payload rounded up to a multiple of 4 plus VIRTUAL_OFFSET, and so
\* on; they increase strictly and every one is a multiple of 4.
C7_Determinism ==
    /\ Len(pointers_find_replace) = Len(calls)
    /\ \A k \in 1..Len(pointers_find_replace) :
           /\ NewAddresses[k] = Virtual(PaddedSum(k))
           /\ Aligned(NewAddresses[k])
           /\ k > 1 => Less(NewAddresses[k - 1], NewAddresses[k])

\* C7, amended: the new addresses recorded by successive inserts are the start
\* offset plus VIRTUAL_OFFSET, then the start offset plus the length of the
\* first payload, the sum rounded up to a multiple of 4, plus VIRTUAL_OFFSET,
\* and so on; they never decrease, they increase strictly after a payload that
\* is not empty and after an address that is not a multiple of 4, and every
\* one after the first is a multiple of 4, the first one when the start offset
\* is.
C7_DeterminismOfCursor ==
    /\ Len(pointers_find_replace) = Len(calls)
    /\ \A k \in 1..Len(pointers_find_replace) :
           /\ NewAddresses[k] = Virtual(CursorBefore(k))
           /\ k = 1 => (Aligned(NewAddresses[k]) <=> insert_at % 4 = 0)
           /\ k > 1 =>
                  /\ Aligned(NewAddresses[k])
                  /\ ~Less(NewAddresses[k], NewAddresses[k - 1])
                  /\ (Len(calls[k - 1].payload) > 0 \/ ~Aligned(NewAddresses[k - 1]))
                         => Less(NewAddresses[k - 1], NewAddresses[k])

\* two inserts were made from a start offset that is not a multiple of 4
C7_Witness ==
    /\ Len(calls) = 2
    /\ Len(pointers_find_replace) = 2
    /\ insert_at % 4 # 0
    /\ Len(calls[1].payload) > 0
    /\ Less(NewAddresses[1], NewAddresses[2])

----------------------------------------------------------------------------
(* C8 *)

\* C8: an insert made with the cursor at c writes the payload at the offsets
\* c..c+len-1, writes zero bytes from there up to the smallest multiple of 4
\* that is at least c+len, and leaves the cursor at that multiple of 4.
C8_InsertWrites ==
    [][Len(calls') = Len(calls) + 1
           => LET c == Insert_offset
                  p == calls'[Len(calls')].payload
                  e == RoundUp4(c + Len(p))
              IN  /\ Insert_offset' = e
                  /\ e > c => Len(ROM') >= e
                  /\ \A i \in 1..Len(p) : ROM'[c + i] = p[i]
                  /\ \A i \in (c + Len(p) + 1)..e : ROM'[i] = 0]_vars

\* an insert wrote a payload and zero bytes after it
C8_Witness ==
    /\ Len(calls) > 0
    /\ LET last == calls[Len(calls)]
           end == last.at + Len(last.payload)
       IN  /\ Len(last.payload) > 0
           /\ end % 4 # 0
           /\ Insert_offset = RoundUp4(end)
           /\ Len(ROM) >= Insert_offset
           /\ SubSeq(ROM, last.at + 1, end) = last.payload
           /\ \A i \in (end + 1)..Insert_offset : ROM[i] = 0

----------------------------------------------------------------------------
(* C9 *)

\* C9: every insert appends the pair (old_address + V, c + V) to the mapping,
\* V being the virtual offset given at construction and c the cursor before
\* the call.
C9_ConfiguredOffset ==
    /\ Len(pointers_find_replace) = Len(calls)
    /\ \A k \in 1..Len(calls) :
           pointers_find_replace[k] =
               <<Plus(calls[k].old_address, self_VIRTUAL_OFFSET),
                 Plus(Num(calls[k].at), self_VIRTUAL_OFFSET)>>

----------------------------------------------------------------------------
(* C10 *)

\* C10, as claimed: insert returns the new address of the payload, the cursor
\* before the write plus VIRTUAL_OFFSET, which is the second component of the
\* pair it recorded.
C10_ReturnsNewAddress ==
    \A k \in 1..Len(calls) :
        /\ calls[k].result = Virtual(calls[k].at)
        /\ calls[k].result = pointers_find_replace[k][2]

\* C10, amended: insert returns nothing; the new address of the payload, the
\* cursor before the write plus VIRTUAL_OFFSET, is the second component of the
\* pair it recorded.
C10_RecordsNewAddress ==
    \A k \in 1..Len(calls) :
        /\ calls[k].result = None
        /\ k <= Len(pointers_find_replace)
        /\ pointers_find_replace[k][2] = Virtual(calls[k].at)

\* an insert has returned after recording its pair
C10_Witness ==
    /\ Len(calls) > 0
    /\ Len(pointers_find_replace) = Len(calls)
    /\ calls[Len(calls)].at > 0
    /\ pointers_find_replace[Len(calls)][2] = Virtual(calls[Len(calls)].at)

----------------------------------------------------------------------------
(* C11 *)

\* C11: an insert made with the cursor at c that leaves the cursor at e
\* removes no byte of the image and changes no byte at an offset below c or at
\* or after e; so a pointer stored in 4 bytes that lie outside c..e-1 is as it
\* was before the insert.
C11_InsertFrame ==
    [][Len(calls') = Len(calls) + 1
           => LET c == Insert_offset
                  e == Insert_offset'
              IN  /\ Len(ROM') >= Len(ROM)
                  /\ \A i \in 0..(Len(ROM) - 1) :
                         (i < c \/ i >= e) => ROM'[i + 1] = ROM[i + 1]
                  /\ \A o \in Offsets(ROM) :
                         (o + 4 <= c \/ o >= e)
                             => WindowAt(ROM', o) = WindowAt(ROM, o)]_vars

\* an insert wrote a payload inside the image, with bytes of the image on
\* both sides of the range it wrote
C11_Witness ==
    /\ Len(calls) = 1
    /\ LET last == calls[1]
       IN  /\ Len(last.payload) > 0
           /\ last.at > 0
           /\ Insert_offset < Len(ROM)
           /\ SubSeq(ROM, last.at + 1, last.at + Len(last.payload)) = last.payload
           /\ \E i \in 1..last.at : ROM[i] # 0
           /\ \E i \in (Insert_offset + 1)..Len(ROM) : ROM[i] # 0

----------------------------------------------------------------------------
(* C12 *)

\* C12: the pass compares complete windows only, those that start at the
\* offsets 0..L-4 of an image of length L; on an image of fewer than 4 bytes
\* it compares no window, replaces nothing and completes without an error.
C12_CompleteWindowsOnly ==
    /\ pc = "scan" => (Window \in Offsets(rom0) /\ Len(byte_sequence) = 4)
    /\ (InPass /\ Len(rom0) < 4) => (pc = "done" /\ ROM = rom0)

----------------------------------------------------------------------------
(* C13 *)

\* a value that does not fit in 4 bytes
TooWide(n) == n[2] >= 65536

\* what a call that raises an error yields
Raised == <<-1>>

\* the window compared holds an old value whose new value does not fit
MatchTooWide ==
    /\ pc = "scan"
    /\ IsOld(LE(byte_sequence))
    /\ TooWide(FirstNew(LE(byte_sequence)))

\* C13, as claimed: encoding a value that does not fit in 4 bytes fails with
\* an error, in decimal_to_little_endian as in the pass, and when the new
\* value of a matching window does not fit the pass fails and leaves the
\* image as it is.
C13_EncodingFails ==
    [][/\ MatchTooWide => (pc' = "error" /\ ROM' = ROM)
       /\ (pc' = "encoded" /\ TooWide(codec'[1])) => codec'[2] = Raised]_vars

\* C13, amended: when the new value of a matching window does not fit in 4
\* bytes the pass fails with an error at that window and leaves the image as
\* it is: no truncated or wrapped value is written. decimal_to_little_endian
\* has no width and does not fail: for a value that does not fit in 4 bytes
\* it returns more than 4 bytes, the 4 low bytes followed by the higher ones.
C13_PassEncodingFails ==
    [][/\ MatchTooWide => (pc' = "error" /\ ROM' = ROM)
       /\ (pc' = "encoded" /\ TooWide(codec'[1]))
              => LET n == codec'[1]
                     b == codec'[2]
                 IN  /\ Len(b) > 4
                     /\ SubSeq(b, 1, 4) = Bytes(<<n[1], n[2] % 65536>>)
                     /\ b[5] = (n[2] \div 65536) % 256
                     /\ b[Len(b)] # 0]_vars

\* a pass has failed at a window that held an old value whose new value does
\* not fit in 4 bytes, after it replaced nothing there
C13_Witness ==
    /\ pc = "error"
    /\ HeldOld(rom0, tell)
    /\ TooWide(FirstNew(LE(WindowAt(rom0, tell))))
    /\ WindowAt(ROM, tell) = WindowAt(rom0, tell)

----------------------------------------------------------------------------
(* C14 *)

\* C14: little_endian_to_decimal(decimal_to_little_endian(n)) = n for every
\* n from 0 to 2^32 - 1, and little_endian_to_decimal of the 4 bytes the
\* pass writes for a new value n is n.
C14_RoundTrip ==
    [][/\ (pc' = "decoded" /\ ~TooWide(codec'[1])) => codec'[3] = codec'[1]
       /\ (pc = "scan" /\ IsOld(LE(byte_sequence)) /\ ~MatchTooWide)
              => /\ Window + 4 <= Len(ROM')
                 /\ little_endian_to_decimal(WindowAt(ROM', Window))
                        = FirstNew(LE(byte_sequence))]_vars

\* a value of 4 bytes was encoded and decoded back to itself
C14_Witness ==
    /\ pc = "decoded"
    /\ ~TooWide(codec[1])
    /\ Len(codec[2]) = 4
    /\ codec[2][1] # 0
    /\ codec[3] = codec[1]

----------------------------------------------------------------------------
(* C15 *)

\* where the payload of the k-th insert ends, in a sequence of calls
PayloadEnd(cs, k) == cs[k].at + Len(cs[k].payload)

\* C15: the cursor never decreases; an insert writes its payload at the
\* cursor and leaves the cursor at a multiple of 4 that is less than 4 bytes
\* past the end of the payload; so the payload of each insert starts at or
\* after the end of the payload before it, less than 4 bytes after it, and as
\* long as no pass has run the image holds every payload inserted, with zero
\* bytes only between the end of one and the start of the next.
C15_CursorMonotone ==
    [][/\ Insert_offset' >= Insert_offset
       /\ Len(calls') = Len(calls) + 1
              => LET cs == calls'
                     n == Len(cs)
                 IN  /\ cs[n].at = Insert_offset
                     /\ Insert_offset' % 4 = 0
                     /\ PayloadEnd(cs, n) <= Insert_offset'
                     /\ Insert_offset' - PayloadEnd(cs, n) < 4
                     /\ \A k \in 2..n :
                            /\ PayloadEnd(cs, k - 1) <= cs[k].at
                            /\ cs[k].at - PayloadEnd(cs, k - 1) < 4
                            /\ cs[k].at % 4 = 0
                     /\ npasses = 0
                            => \A k \in 1..n :
                                   LET next == IF k < n THEN cs[k + 1].at
                                               ELSE Insert_offset'
                                   IN  /\ (next > cs[k].at => Len(ROM') >= next)
                                       /\ \A i \in 1..Len(cs[k].payload) :
                                              ROM'[cs[k].at + i] = cs[k].payload[i]
                                       /\ \A i \in (PayloadEnd(cs, k) + 1)..next :
                                              ROM'[i] = 0]_vars

\* two payloads were inserted one after the other, the first one followed by
\* zero bytes up to the start of the second
C15_Witness ==
    /\ Len(calls) = 2
    /\ npasses = 0
    /\ Len(calls[1].payload) > 0
    /\ Len(calls[2].payload) > 0
    /\ calls[1].at < calls[2].at
    /\ calls[2].at < Insert_offset
    /\ Insert_offset % 4 = 0
    /\ ROM[calls[1].at + 1] = calls[1].payload[1]
    /\ ROM[calls[2].at + 1] = calls[2].payload[1]
    /\ \A i \in (PayloadEnd(calls, 1) + 1)..calls[2].at : ROM[i] = 0

----------------------------------------------------------------------------
(* C16 *)

\* C16: the pass is one forward pass that ends: the first window it compares
\* starts at offset 0, every other one starts one byte after the one before,
\* so no offset is compared twice, and a pass that is scanning ends, with the
\* file position at the end of the image, whatever the mapping holds and
\* whatever it replaces.
C16_SingleForwardPass ==
    /\ [][pc' = "scan"
              => IF pc = "scan" THEN Window' = Window + 1 ELSE Window' = 0]_vars
    /\ [](pc = "done" => tell = Len(ROM))
    /\ [](pc = "scan" => <>(pc = "done"))

\* a pass has ended after it compared every window of an image that held old
\* values, with a mapping of two pairs
C16_Witness ==
    /\ pc = "done"
    /\ Len(pointers_find_replace) = 2
    /\ tell = Len(ROM)
    /\ Len(rom0) > 4
    /\ ROM # rom0

----------------------------------------------------------------------------
(* C17 *)

\* the window of rom0 at o held an old value and no window that overlaps it
\* held one
HeldOldAlone(o) ==
    /\ HeldOld(rom0, o)
    /\ \A d \in 1..3 : ~HeldOld(rom0, o + d) /\ ~HeldOld(rom0, o - d)

\* C17: every window the pass compares with the mapping holds the bytes the
\* image had at that offset before the pass, never a byte the pass wrote; so
\* replacements do not chain: after the pass a window that held an old value
\* A, alone, holds the new value B of the first pair (A, B), also when B is
\* the old value of another pair (B, C).
C17_NoChaining ==
    /\ pc = "scan"
           => (Window \in Offsets(rom0) /\ byte_sequence = WindowAt(rom0, Window))
    /\ pc = "done"
           => \A o \in Offsets(rom0) :
                  HeldOldAlone(o)
                      => (/\ o + 4 <= Len(ROM)
                          /\ LE(WindowAt(ROM, o)) = FirstNew(LE(WindowAt(rom0, o))))

\* a pass has ended on a mapping with pairs (A, B) and (B, C), C other than B,
\* and a window that held A, alone, holds B
C17_Witness ==
    /\ pc = "done"
    /\ \E o \in Offsets(rom0) :
           /\ HeldOldAlone(o)
           /\ LET B == FirstNew(LE(WindowAt(rom0, o)))
              IN  /\ IsOld(B)
                  /\ FirstNew(B) # B
                  /\ LE(WindowAt(ROM, o)) = B

----------------------------------------------------------------------------
(* C18 *)

\* C18: a step of the pass leaves the mapping, the cursor and the length of
\* the image as they are, and changes bytes of the window it compared only;
\* so an insert made after a pass writes its payload at the cursor the insert
\* before it left, the start offset if there was none, and records that
\* cursor plus VIRTUAL_OFFSET.
C18_PassFrame ==
    [][/\ pc' # "idle"
              => /\ pointers_find_replace' = pointers_find_replace
                 /\ Insert_offset' = Insert_offset
                 /\ Len(ROM') = Len(ROM)
                 /\ \A i \in 1..Len(ROM) :
                        ROM'[i] # ROM[i] => (pc = "scan" /\ i - 1 \in Window..(Window + 3))
       /\ (pc = "done" /\ Len(calls') = Len(calls) + 1)
              => LET n == Len(calls')
                     at == calls'[n].at
                     p == calls'[n].payload
                 IN  /\ at = Insert_offset
                     /\ at = IF n = 1 THEN insert_at
                             ELSE RoundUp4(PayloadEnd(calls', n - 1))
                     /\ Len(pointers_find_replace') = Len(pointers_find_replace) + 1
                     /\ pointers_find_replace'[Len(pointers_find_replace')][2]
                            = Virtual(at)
                     /\ Len(p) > 0 => Len(ROM') >= at + Len(p)
                     /\ \A i \in 1..Len(p) : ROM'[at + i] = p[i]]_vars

\* a payload was inserted, a pass replaced a pointer to its old address, and
\* a second payload was inserted after the pass, next to the first
C18_Witness ==
    /\ pc = "idle"
    /\ npasses > 0
    /\ Len(calls) = 2
    /\ Len(calls[1].payload) > 0
    /\ Len(calls[2].payload) > 0
    /\ Len(rom0) = calls[2].at
    /\ rom0[calls[1].at + 1] = calls[1].payload[1]
    /\ calls[2].at = RoundUp4(PayloadEnd(calls, 1))
    /\ ROM[calls[2].at + 1] = calls[2].payload[1]
    /\ \E o \in 0..(calls[1].at - 4) :
           /\ LE(WindowAt(rom0, o)) = pointers_find_replace[1][1]
           /\ WindowAt(ROM, o) = Bytes(pointers_find_replace[1][2])

====
